---- MODULE Spec2Model ----
(***************************************************************************)
(* A model of expr-gen.py: the read/write primitives with their            *)
(* transaction context (commit.reads / commit.writes), journal / commit,   *)
(* and the goal / on_goal / minimize / maximize optimizer chain.           *)
(*                                                                         *)
(* Python objects are modelled as follows.                                 *)
(*  - A stored value is a record [t, n]: a plain number Num(n), None, or a *)
(*    Bounded(BoundedA, BoundedB, v = n) capability value, which overrides *)
(*    read and write through its __concept__ table.                        *)
(*  - A container is a Python dict, which is unhashable; it is named by    *)
(*    its id(), a number in Containers.  Attribute keys are the numbers in *)
(*    Keys, and NoKey stands for key=None (a whole-value address).         *)
(*  - A Python dict used by the journal is a record [on, list, m]: m is    *)
(*    the mapping, list is the value stored under the _dictKeys entry, and *)
(*    on = FALSE stands for None in place of a dict.                       *)
(*  - The call stack is explicit: one frame per active call of journal,    *)
(*    goal, the strategy `repeat`, or the user's computation.              *)
(***************************************************************************)
EXTENDS Integers, Sequences, FiniteSets, TLC

\* ---------------------------------------------------------------- bounds
MaxVal == 2          \* plain values written and whole values addressed: 1..MaxVal
MaxResult == 2       \* results a computation may return: 1..MaxResult
MaxTries == 2        \* tries of a registered minimize strategy: 0..MaxTries
MaxStrategies == 3   \* strategies registered during one baseline run
MaxOps == 2          \* read / write calls in one behaviour of Spec
MaxCalls == 2        \* journal calls in one behaviour of Spec
MaxGoals == 1        \* goal calls in one behaviour of SpecGoal / SpecMinimize
MaxGoalOps == 1      \* write / ignored on_goal calls in one behaviour of SpecGoal
MaxRuns == 3         \* runs of the computation in one behaviour of SpecGoal / SpecMinimize
MaxNested == 1       \* further goal calls in one behaviour of SpecNested
MaxArgs == 2         \* positional arguments of a call of a checked function
MaxKwargs == 1       \* keyword arguments of a call of a checked function

Containers == {101, 102}     \* id() of the two dict containers
Keys == {1}                  \* keys inside a container
NoKey == 0                   \* key=None
Vals == 1..MaxVal
Results == 1..MaxResult
BoundedA == 1                \* the bounds of the modelled Bounded value
BoundedB == 2
WholeVal == BoundedB + 1     \* the plain value addressed whole, and the v of Bounded
CapObj == WholeVal + 1       \* a Bounded(BoundedA, BoundedB) object, v = None, addressed whole
Draws == {BoundedA, BoundedB}    \* values random.uniform(BoundedA, BoundedB) may return

\* ---------------------------------------------------------------- values
Num(n) == [t |-> "int", n |-> n]
None == [t |-> "None", n |-> 0]
Bounded(v) == [t |-> "Bounded", n |-> v]
\* Bounded(BoundedA, BoundedB) with v = None.
BoundedNoV == Bounded(0)
\* `dict` itself as the value, when key is None.
WholeValue(dict) == IF dict = CapObj THEN BoundedNoV ELSE Num(dict)
KeyError == [t |-> "KeyError", n |-> 0]
\* The values user code passes to write: the plain numbers, and a
\* Bounded(BoundedA, BoundedB, v = WholeVal).
PlainVals == {Num(v) : v \in Vals}
CapVals == {Bounded(WholeVal)}

\* A dict key is hashable unless it is one of the dict containers.
Hashable(key) == key \notin Containers
\* id(key): a container is named by its id; the id of any other object is
\* a number that is no key of any dict.
Id(key) == IF Hashable(key) THEN key + 1000 ELSE key

NoneDict == [on |-> FALSE, list |-> <<>>, m |-> <<>>]
EmptyDict == [on |-> TRUE, list |-> <<>>, m |-> <<>>]

\* dict[key] = value, falling back to dict[id(key)] for an unhashable key,
\* which is then appended once to the dict's _dictKeys list.
_dictSet(dict, key, value) ==
    IF Hashable(key)
    THEN [dict EXCEPT !.m = (key :> value) @@ dict.m]
    ELSE [dict EXCEPT
            !.list = IF Id(key) \notin DOMAIN dict.m
                     THEN Append(dict.list, key) ELSE dict.list,
            !.m = (Id(key) :> value) @@ dict.m]

\* The dict found or created under key, and the outer dict after creation.
_dictCreate(dict, key) ==
    IF Id(key) \in DOMAIN dict.m
    THEN [outer |-> dict, inner |-> dict.m[Id(key)]]
    ELSE IF Hashable(key) /\ key \in DOMAIN dict.m
         THEN [outer |-> dict, inner |-> dict.m[key]]
         ELSE [outer |-> _dictSet(dict, key, EmptyDict), inner |-> EmptyDict]

\* _dictGet without the lookup by id(key).
_dictGetHashableOnly(dict, key) ==
    IF Hashable(key) /\ key \in DOMAIN dict.m THEN dict.m[key] ELSE KeyError

_dictGet(dict, key) ==
    IF Id(key) \in DOMAIN dict.m
    THEN dict.m[Id(key)]
    ELSE IF Hashable(key) /\ key \in DOMAIN dict.m
         THEN dict.m[key]
         ELSE KeyError

\* Increasing enumeration of a finite set of numbers (dict.keys() order is
\* immaterial for the hashable keys: any of them fails commit).
RECURSIVE SetToSeq(_)
SetToSeq(S) ==
    IF S = {} THEN <<>>
    ELSE LET x == CHOOSE y \in S : \A z \in S : y <= z
         IN <<x>> \o SetToSeq(S \ {x})

\* _dictKeys without the test `k not in ids`.
_dictKeysWithIds(dict) == dict.list \o SetToSeq(DOMAIN dict.m)

\* All keys of a dict: the _dictKeys list first, then every other key
\* that is not the id of a listed key.
_dictKeys(dict) ==
    LET ids == {Id(dict.list[i]) : i \in 1..Len(dict.list)}
    IN dict.list \o SetToSeq(DOMAIN dict.m \ ids)

\* _dictGet(_dictGet(d, dict), key) with KeyError propagating.
Get2(d, dict, key) ==
    LET inner == _dictGet(d, dict)
    IN IF inner = KeyError THEN KeyError ELSE _dictGet(inner, key)

\* _dictSet(_dictCreate(d, dict), key, value): the inner dict is mutated
\* in place, so the outer dict sees the new entry.
Set2(d, dict, key, value) ==
    LET c == _dictCreate(d, dict)
        at == IF Id(dict) \in DOMAIN c.outer.m THEN Id(dict) ELSE dict
    IN [c.outer EXCEPT !.m = (at :> _dictSet(c.inner, key, value)) @@ c.outer.m]

\* ------------------------------------------------------- read and write
RECURSIVE read(_, _, _, _, _, _)
RECURSIVE write(_, _, _, _, _)

\* Bounded._boundedRead: random.uniform(a, b), here u, when v is None,
\* else read(self.v) clamped into [a, b].
_boundedRead(self, st, rd, wr, u) ==
    IF self = BoundedNoV THEN Num(u)
    ELSE LET v == read(self.n, NoKey, st, rd, wr, u).res
         IN IF v.n < BoundedA THEN Num(BoundedA)
            ELSE IF BoundedB < v.n THEN Num(BoundedB) ELSE v

\* Bounded._boundedWrite: self.v = write(self.v, new=value) unless v is
\* None; returns self.
_boundedWrite(self, value, st, wr) ==
    IF self = BoundedNoV THEN self
    ELSE Bounded(write(self.n, NoKey, value, st, wr).res.n)

\* __checkOverride(value, read, value): None unless value has a
\* __concept__ entry for read.
checkOverrideRead(value, st, rd, wr, u) ==
    IF value.t = "Bounded" THEN _boundedRead(value, st, rd, wr, u) ELSE None

\* __checkOverride(prev, write, prev, new)
checkOverrideWrite(prev, new, st, wr) ==
    IF prev.t = "Bounded" THEN _boundedWrite(prev, new, st, wr) ELSE None

\* read with the lookup in commit.writes left out.
readNoBuffer(dict, key, st, rd, wr, u) ==
    LET inR == IF rd.on
               THEN IF key = NoKey THEN _dictGet(rd, dict) ELSE Get2(rd, dict, key)
               ELSE KeyError
    IN IF inR # KeyError THEN [res |-> inR, reads |-> rd]
       ELSE IF key # NoKey /\ key \notin DOMAIN st[dict]
            THEN [res |-> None, reads |-> rd]
            ELSE LET value == IF key # NoKey THEN st[dict][key] ELSE WholeValue(dict)
                     result == checkOverrideRead(value, st, rd, wr, u)
                 IN IF result # None
                    THEN [res |-> result,
                          reads |-> IF key # NoKey /\ rd.on
                                    THEN Set2(rd, dict, key, result)
                                    ELSE rd]
                    ELSE [res |-> value, reads |-> rd]

\* read(dict, key): the value returned and commit.reads afterwards; u is
\* what random.uniform returns if the read calls it.
read(dict, key, st, rd, wr, u) ==
    LET inW == IF wr.on
               THEN IF key = NoKey THEN _dictGet(wr, dict) ELSE Get2(wr, dict, key)
               ELSE KeyError
        inR == IF rd.on
               THEN IF key = NoKey THEN _dictGet(rd, dict) ELSE Get2(rd, dict, key)
               ELSE KeyError
    IN IF inW # KeyError THEN [res |-> inW, reads |-> rd]
       ELSE IF inR # KeyError THEN [res |-> inR, reads |-> rd]
       ELSE IF key # NoKey /\ key \notin DOMAIN st[dict]
            THEN [res |-> None, reads |-> rd]
            ELSE LET value == IF key # NoKey THEN st[dict][key] ELSE WholeValue(dict)
                     result == checkOverrideRead(value, st, rd, wr, u)
                 IN IF result # None
                    THEN [res |-> result,
                          reads |-> IF key # NoKey /\ rd.on
                                    THEN IF key = NoKey
                                         THEN _dictSet(rd, dict, result)
                                         ELSE Set2(rd, dict, key, result)
                                    ELSE rd]
                    ELSE [res |-> value, reads |-> rd]

\* writeBuffered that also stores into the container.
writeBufferedThrough(dict, key, new, st, wr) ==
    [res |-> None,
     storage |-> IF key # NoKey THEN [st EXCEPT ![dict] = (key :> new) @@ @] ELSE st,
     writes |-> IF key = NoKey THEN _dictSet(wr, dict, new)
                ELSE Set2(wr, dict, key, new)]

\* write(dict, key, new) with commit.writes set: the value returned, the
\* storage and commit.writes afterwards.  The write goes to the buffer;
\* _dictSet returns nothing, so None is returned.
writeBuffered(dict, key, new, st, wr) ==
    [res |-> None, storage |-> st,
     writes |-> IF key = NoKey THEN _dictSet(wr, dict, new)
                ELSE Set2(wr, dict, key, new)]

\* writeDirect that leaves a missing key missing.
writeDirectNoInsert(dict, key, new, st, wr) ==
    IF key # NoKey /\ key \notin DOMAIN st[dict]
    THEN [res |-> new, writes |-> wr, storage |-> st]
    ELSE LET prev == IF key # NoKey THEN st[dict][key] ELSE WholeValue(dict)
             result == checkOverrideWrite(prev, new, st, wr)
             stored == IF result # None THEN result ELSE new
         IN [res |-> stored, writes |-> wr,
             storage |-> IF key # NoKey
                         THEN [st EXCEPT ![dict] = (key :> stored) @@ @]
                         ELSE st]

\* write(dict, key, new) with commit.writes = None: the previous value may
\* override the write; a missing key is inserted.
writeDirect(dict, key, new, st, wr) ==
    IF key # NoKey /\ key \notin DOMAIN st[dict]
    THEN [res |-> new, writes |-> wr,
          storage |-> [st EXCEPT ![dict] = (key :> new) @@ @]]
    ELSE LET prev == IF key # NoKey THEN st[dict][key] ELSE WholeValue(dict)
             result == checkOverrideWrite(prev, new, st, wr)
             stored == IF result # None THEN result ELSE new
         IN [res |-> stored, writes |-> wr,
             storage |-> IF key # NoKey
                         THEN [st EXCEPT ![dict] = (key :> stored) @@ @]
                         ELSE st]

write(dict, key, new, st, wr) ==
    IF wr.on THEN writeBuffered(dict, key, new, st, wr)
    ELSE writeDirect(dict, key, new, st, wr)

\* ---------------------------------------------------- checked functions
\* An argument of a call of a checked function `check`, by what
\* __checkOverride finds on it: no __concept__ attribute ("plain"); a
\* __concept__ table with no entry for check ("other"); an entry that is
\* None ("none"); an override that returns None ("defers"); an override
\* that returns the value r ("overrides").
Args ==
    {[c |-> k, r |-> 0] : k \in {"plain", "other", "none", "defers"}}
        \cup {[c |-> "overrides", r |-> v] : v \in Vals}
\* What the default body func(*args, **kwargs) returns.
DefaultResult == Num(0)

\* __checkOverride(data, check, *args, **kwargs): the result, whether the
\* override was called, and whether the lookup raised KeyError.
checkOverride(data) ==
    IF data.c = "plain" THEN [res |-> None, called |-> FALSE, raised |-> FALSE]
    ELSE IF data.c = "other" THEN [res |-> KeyError, called |-> FALSE, raised |-> TRUE]
    ELSE IF data.c = "none" THEN [res |-> None, called |-> FALSE, raised |-> FALSE]
    ELSE IF data.c = "defers" THEN [res |-> None, called |-> TRUE, raised |-> FALSE]
    ELSE [res |-> Num(data.r), called |-> TRUE, raised |-> FALSE]

\* One of the loops of check over the arguments vs, the first of which is
\* at position pos: the positions whose overrides were called, and the
\* result returned or the exception raised, if any.
RECURSIVE checkLoop(_, _, _)
checkLoop(vs, pos, invoked) ==
    IF vs = <<>> THEN [k |-> "none", res |-> None, invoked |-> invoked]
    ELSE LET x == checkOverride(Head(vs))
             inv == IF x.called THEN Append(invoked, pos) ELSE invoked
         IN IF x.raised THEN [k |-> "exc", res |-> x.res, invoked |-> inv]
            ELSE IF x.res # None THEN [k |-> "val", res |-> x.res, invoked |-> inv]
            ELSE checkLoop(Tail(vs), pos + 1, inv)

\* check(*args, **kwargs) of checked(func): the loop over args, the loop
\* over kwargs, then func.
checked(args, kwargs) ==
    LET a == checkLoop(args, 1, <<>>)
        b == checkLoop(kwargs, Len(args) + 1, a.invoked)
    IN IF a.k # "none" THEN [k |-> a.k, res |-> a.res, invoked |-> a.invoked, body |-> FALSE]
       ELSE IF b.k # "none"
            THEN [k |-> b.k, res |-> b.res, invoked |-> b.invoked, body |-> FALSE]
            ELSE [k |-> "val", res |-> DefaultResult, invoked |-> b.invoked, body |-> TRUE]

\* The sequences of at most n elements of S.
SeqsUpTo(S, n) == UNION {[1..m -> S] : m \in 0..n}
\* The positional and the keyword arguments of a call.
ArgLists == SeqsUpTo(Args, MaxArgs)
KwargLists == SeqsUpTo(Args, MaxKwargs)

\* ---------------------------------------------------------------- state
VARIABLES
    storage,    \* the dict containers: storage[c] maps the keys present in c
    reads,      \* commit.reads
    writes,     \* commit.writes
    do,         \* goal.do: <<>> for None, else <<optimizer>>
    in_goal,    \* goal.in_goal
    in_do,      \* goal.in_do
    journaled,  \* goal.journaled: <<>> for None, else <<effect set>>
    stack,      \* the call stack below the running function, innermost last
    ret,        \* the value being returned, or the exception being raised
    held,       \* the effect set a top-level journal() call returned
    ev,         \* the last operation performed, with arguments and result
    nops,       \* read / write / ignored on_goal calls still allowed
    ncalls,     \* top-level journal / goal calls still allowed
    nruns       \* runs of the computation under goal still allowed

vars == <<storage, reads, writes, do, in_goal, in_do, journaled, stack, ret,
          held, ev, nops, ncalls, nruns>>

NoRet == [k |-> "none", res |-> 0, r |-> NoneDict, w |-> NoneDict, log |-> <<>>]
\* A plain result; log lists the writes of the run of the user's
\* computation that produced it (history, not program state).
ValRet(res, log) == [k |-> "val", res |-> res, r |-> NoneDict, w |-> NoneDict, log |-> log]
\* The tuple (result, read_journal, write_journal) returned by journal.
EffectSet(res, r, w, log) == [k |-> "js", res |-> res, r |-> r, w |-> w, log |-> log]
Exc == [k |-> "exc", res |-> 0, r |-> NoneDict, w |-> NoneDict, log |-> <<>>]

NoEv == [op |-> "none"]

\* The dicts a container may hold initially.
InitDicts == {<<>>} \cup {(k :> Num(1)) : k \in Keys} \cup {(k :> Bounded(WholeVal)) : k \in Keys}
FirstContainer == CHOOSE c \in Containers : \A d \in Containers : c <= d

\* The module's state after import: no context, no goal in progress.
InitModule ==
    /\ reads = NoneDict
    /\ writes = NoneDict
    /\ do = <<>>
    /\ in_goal = FALSE
    /\ in_do = FALSE
    /\ journaled = <<>>
    /\ stack = <<>>
    /\ ret = NoRet
    /\ held = <<>>
    /\ ev = NoEv

InitState ==
    /\ storage \in {st \in [Containers -> InitDicts] :
                        \A c \in Containers \ {FirstContainer} : st[c] = <<>>}
    /\ InitModule

Init == InitState /\ nops = MaxOps /\ ncalls = MaxCalls /\ nruns = 0
\* One container, which may also hold a Bounded without v.
InitCap ==
    /\ InitModule
    /\ storage \in {st \in [Containers -> InitDicts \cup {(k :> BoundedNoV) : k \in Keys}] :
                        \A c \in Containers \ {FirstContainer} : st[c] = <<>>}
    /\ nops = MaxOps /\ ncalls = MaxCalls /\ nruns = 0
InitGoal == InitState /\ nops = MaxGoalOps /\ ncalls = MaxGoals /\ nruns = MaxRuns
\* goal over empty containers, with a computation that makes no write.
InitMinimize ==
    /\ InitState
    /\ storage = [c \in Containers |-> <<>>]
    /\ nops = 0 /\ ncalls = MaxGoals /\ nruns = MaxRuns

Top == stack[Len(stack)]
Pop == SubSeq(stack, 1, Len(stack) - 1)
\* User code is running: the module's top level, or the user's computation.
TopK == IF stack = <<>> THEN "top" ELSE Top.k
InUser == ret.k = "none" /\ TopK \in {"top", "func"}
AtTopLevel == ret.k = "none" /\ stack = <<>>
Transacted == writes.on

\* The addresses user code reads and writes: a key of a container, or a
\* whole plain value with key=None.
Addresses == (Containers \X Keys) \cup {<<WholeVal, NoKey>>}

\* ------------------------------------------------- user code: read, write
Read(dict, key, u) ==
    /\ InUser
    /\ nops > 0
    /\ LET x == read(dict, key, storage, reads, writes, u)
       IN /\ reads' = x.reads
          /\ ev' = [op |-> "read", dict |-> dict, key |-> key, res |-> x.res,
                    transacted |-> Transacted]
    /\ stack' = IF TopK = "func" /\ read(dict, key, storage, reads, writes, u).reads # reads
                THEN [stack EXCEPT ![Len(stack)].cached =
                        Append(@, [dict |-> dict, key |-> key,
                                   res |-> read(dict, key, storage, reads, writes, u).res])]
                ELSE stack
    /\ nops' = nops - 1
    /\ UNCHANGED <<storage, writes, do, in_goal, in_do, journaled, ret, held, ncalls, nruns>>

\* A capability value is never written through the write override of
\* another one that holds a v: values nest one level deep.
Nests(dict, key, new) ==
    /\ new.t = "Bounded" /\ ~Transacted
    /\ key # NoKey /\ key \in DOMAIN storage[dict]
    /\ storage[dict][key].t = "Bounded" /\ storage[dict][key] # BoundedNoV

Write(dict, key, new) ==
    /\ InUser
    /\ nops > 0
    /\ ~Nests(dict, key, new)
    /\ LET x == write(dict, key, new, storage, writes)
       IN /\ storage' = x.storage
          /\ writes' = x.writes
          /\ ev' = [op |-> "write", dict |-> dict, key |-> key, new |-> new,
                    res |-> x.res, transacted |-> Transacted,
                    in_journal |-> \E j \in 1..Len(stack) : stack[j].k = "journal",
                    overridden |-> IF key = NoKey
                                   THEN WholeValue(dict).t = "Bounded"
                                   ELSE /\ key \in DOMAIN storage[dict]
                                        /\ storage[dict][key].t = "Bounded"]
    /\ stack' = IF stack = <<>> THEN stack
                ELSE [stack EXCEPT ![Len(stack)].log =
                        Append(@, [dict |-> dict, key |-> key, new |-> new])]
    /\ nops' = nops - 1
    /\ UNCHANGED <<reads, do, in_goal, in_do, journaled, ret, held, ncalls, nruns>>

\* A write made by the user's computation, not by the module's top level.
WriteInRun(dict, key, new) == TopK = "func" /\ Write(dict, key, new)

\* ------------------------------------------------------ journal and commit
\* The frame of the user's computation; log lists its writes so far, and
\* cached the reads whose result it stored in commit.reads (history).
FuncFrame == [k |-> "func", log |-> <<>>, cached |-> <<>>]

\* journal that saves nothing of the enclosing context.
JournalFrameNoSave ==
    [k |-> "journal", prev_reads |-> EmptyDict, prev_writes |-> EmptyDict,
     entry |-> storage]

\* journal(func): save the context, install a fresh one, call func.
JournalFrame == [k |-> "journal", prev_reads |-> reads, prev_writes |-> writes,
                 entry |-> storage]

\* A top-level call journal(f).
CallJournal ==
    /\ AtTopLevel
    /\ ncalls > 0
    /\ stack' = <<JournalFrame, FuncFrame>>
    /\ reads' = EmptyDict
    /\ writes' = EmptyDict
    /\ ncalls' = ncalls - 1
    /\ ev' = [op |-> "journal"]
    /\ UNCHANGED <<storage, do, in_goal, in_do, journaled, ret, held, nops, nruns>>

\* The user's computation returns a result.
Return(res) ==
    /\ ret.k = "none" /\ TopK = "func"
    /\ stack' = Pop
    /\ ret' = ValRet(res, Top.log)
    /\ ev' = [op |-> "return", res |-> res]
    /\ UNCHANGED <<storage, reads, writes, do, in_goal, in_do, journaled, held, nops, ncalls, nruns>>

\* The user's computation raises.
Fail ==
    /\ ret.k = "none" /\ TopK = "func"
    /\ stack' = Pop
    /\ ret' = Exc
    /\ ev' = [op |-> "raise"]
    /\ UNCHANGED <<storage, reads, writes, do, in_goal, in_do, journaled, held, nops, ncalls, nruns>>

\* func returned inside journal: restore the saved context and return
\* (result, r, w).
JournalReturn ==
    /\ ret.k = "val" /\ TopK = "journal"
    /\ ret' = EffectSet(ret.res, reads, writes, ret.log)
    /\ reads' = Top.prev_reads
    /\ writes' = Top.prev_writes
    /\ stack' = Pop
    /\ ev' = [op |-> "journal_return"]
    /\ UNCHANGED <<storage, do, in_goal, in_do, journaled, held, nops, ncalls, nruns>>

\* An exception leaves a frame of journal, goal or a strategy: none of
\* them has a handler or a finally clause, so nothing is restored.
Unwind ==
    /\ ret.k = "exc" /\ stack # <<>>
    /\ stack' = Pop
    /\ ev' = [op |-> "unwind", frame |-> Top.k]
    /\ UNCHANGED <<storage, reads, writes, do, in_goal, in_do, journaled, ret, held, nops, ncalls, nruns>>

\* The storage after the loop of commit over the keys in ks, the
\* containers merged so far, and whether dict.update raised on a key that
\* is no dict: st[c].update(_dictGet(w, c)) for each key c.
RECURSIVE CommitLoop(_, _, _, _)
CommitLoop(w, ks, st, merged) ==
    IF ks = <<>> THEN [storage |-> st, merged |-> merged, raised |-> FALSE]
    ELSE LET c == Head(ks)
         IN IF c \notin Containers
            THEN [storage |-> st, merged |-> merged, raised |-> TRUE]
            ELSE CommitLoop(w, Tail(ks),
                            [st EXCEPT ![c] = _dictGet(w, c).m @@ @],
                            Append(merged, c))

\* commit called with dont=True.
commitDont(js, st) == [storage |-> st, merged |-> <<>>, raised |-> FALSE]

\* commit(effect set) with dont=False.
commit(js, st) == CommitLoop(js.w, _dictKeys(js.w), st, <<>>)

CommitEv(js, x) == [op |-> "commit", w |-> js.w, res |-> js.res, log |-> js.log,
                    merged |-> x.merged, raised |-> x.raised]

\* The module's top level receives what its call returned or raised.
TopReceive ==
    /\ stack = <<>> /\ ret.k # "none"
    /\ held' = IF ret.k = "js" THEN <<ret>> ELSE held
    /\ ret' = NoRet
    /\ ev' = [op |-> "received", k |-> ret.k, res |-> ret.res]
    /\ UNCHANGED <<storage, reads, writes, do, in_goal, in_do, journaled, stack, nops, ncalls, nruns>>

\* A top-level commit(held) of the effect set a journal call returned.
Commit ==
    /\ AtTopLevel /\ held # <<>>
    /\ LET x == commit(held[1], storage)
       IN /\ storage' = x.storage
          /\ ev' = CommitEv(held[1], x)
    /\ held' = <<>>
    /\ UNCHANGED <<reads, writes, do, in_goal, in_do, journaled, stack, ret, nops, ncalls, nruns>>

\* A top-level call of a checked function.
CallChecked(args, kwargs) ==
    /\ AtTopLevel
    /\ nops > 0
    /\ ev' = [op |-> "checked", args |-> args, kwargs |-> kwargs,
              out |-> checked(args, kwargs)]
    /\ nops' = nops - 1
    /\ UNCHANGED <<storage, reads, writes, do, in_goal, in_do, journaled, stack, ret,
                   held, ncalls, nruns>>

\* ------------------------------------------------ goal, on_goal, minimize
\* The measure passed to goal: sign = 1 is the caller's measure M, and
\* sign = -1 is maximize's `lambda r: -measure(r)`.
M(r) == (r - 2) * (r - 2)
\* The measure with maximize's negation omitted.
MeasureNotNegated(sign, r) == M(r)

Measure(sign, r) == sign * M(r)

\* The closure `repeat` that minimize(measure, tries=n) defines and
\* registers; name is the order of its registration (history).
Repeat(n, name) == [kind |-> "repeat", tries |-> n, name |-> name]
\* combine with prev and do exchanged.
CombineSwapped(prev, d) == [kind |-> "combine", prev |-> d, do |-> prev]

\* The closure `combine` that on_goal builds over prev = goal.do and do.
Combine(prev, d) == [kind |-> "combine", prev |-> prev, do |-> d]
\* The closure `redo` that combine passes on as the computation.
Redo(d, measure, func) == [kind |-> "redo", do |-> d, measure |-> measure, func |-> func]
UserFunc == [kind |-> "user"]

\* The number of strategies composed in an optimizer.
RECURSIVE ChainLen(_)
ChainLen(d) ==
    IF d = <<>> THEN 0
    ELSE IF d[1].kind = "combine" THEN ChainLen(<<d[1].prev>>) + ChainLen(<<d[1].do>>)
    ELSE 1

\* The number of re-runs of the user's computation an optimizer asks for.
RECURSIVE Reruns(_)
Reruns(d) ==
    IF d = <<>> THEN 0
    ELSE IF d[1].kind = "combine" THEN Reruns(<<d[1].prev>>) * Reruns(<<d[1].do>>)
    ELSE d[1].tries

\* goal.do after on_goal(d).
on_goal(d) ==
    IF ~in_goal THEN do
    ELSE IF in_do THEN do
    ELSE IF do = <<>> THEN <<d>>
    ELSE <<Combine(do[1], d)>>

\* The frame of repeat(measure, func) on entry: the best so far is the
\* goal's baseline.  runs, logs and best are history: the results seen,
\* the writes of the runs that gave them, and the position of the retained
\* one.
RepeatFrame(cl, measure, func, gj) ==
    [k |-> "repeat", name |-> cl.name, tries |-> cl.tries, measure |-> measure,
     func |-> func, i |-> 0, bestJ |-> gj, bestM |-> Measure(measure, gj.res),
     runs |-> <<gj.res>>, logs |-> <<gj.log>>, best |-> 1]

\* Calling an optimizer: combine calls prev with redo as the computation;
\* repeat starts its own frame.
RECURSIVE Invoke(_, _, _, _)
Invoke(cl, measure, func, gj) ==
    IF cl.kind = "combine"
    THEN Invoke(cl.prev, measure, Redo(cl.do, measure, func), gj)
    ELSE RepeatFrame(cl, measure, func, gj)

\* Calling a computation: the user's function, or redo, which calls its
\* strategy on the computation it wraps.
CallFrame(func, gj) ==
    IF func.kind = "user" THEN FuncFrame
    ELSE Invoke(func.do, func.measure, func.func, gj)

\* minimize(measure, tries=n) or maximize(measure, tries=n) called by user
\* code: both define `repeat` and pass it to on_goal.
OnGoal(n) ==
    /\ InUser
    /\ IF in_goal /\ ~in_do
       THEN ChainLen(do) < MaxStrategies
            /\ nruns + Reruns(do) - Reruns(on_goal(Repeat(n, 0))) >= 0
       ELSE nops > 0
    /\ do' = on_goal(Repeat(n, ChainLen(do) + 1))
    /\ nops' = IF in_goal /\ ~in_do THEN nops ELSE nops - 1
    /\ nruns' = IF in_goal /\ ~in_do
                THEN nruns + Reruns(do) - Reruns(on_goal(Repeat(n, 0)))
                ELSE nruns
    /\ ev' = [op |-> "on_goal", before |-> do,
              open |-> \E j \in 1..Len(stack) : stack[j].k = "goal",
              in_optimizer |-> \E j \in 1..Len(stack) : stack[j].k = "repeat"]
    /\ UNCHANGED <<storage, reads, writes, in_goal, in_do, journaled, stack, ret, held, ncalls>>

\* The frame of goal(measure, func) on entry; pc is "journal" during the
\* baseline run and "do" while the optimizer runs.  prev_journaled is
\* history: goal.journaled when goal was called.
GoalFrame(sign) ==
    [k |-> "goal", prev_do |-> do, prev_in_goal |-> in_goal,
     prev_in_do |-> in_do, measure |-> sign, pc |-> "journal",
     entry |-> storage, prev_journaled |-> journaled]

\* A top-level call goal(measure, f); minimize(measure, f, tries=n) and
\* maximize(measure, f, tries=n) are this call with a computation that
\* first registers the strategy.
CallGoal(sign) ==
    /\ AtTopLevel
    /\ ncalls > 0 /\ nruns > 0
    /\ do' = <<>>
    /\ in_goal' = TRUE
    /\ stack' = <<GoalFrame(sign), JournalFrame, FuncFrame>>
    /\ reads' = EmptyDict
    /\ writes' = EmptyDict
    /\ ncalls' = ncalls - 1
    /\ nruns' = nruns - 1
    /\ ev' = [op |-> "goal", sign |-> sign]
    /\ UNCHANGED <<storage, in_do, journaled, ret, held, nops>>

\* The user's computation calls goal(measure, g) itself.
CallNestedGoal(sign) ==
    /\ ret.k = "none" /\ TopK = "func"
    /\ ncalls > 0 /\ nruns > 0
    /\ do' = <<>>
    /\ in_goal' = TRUE
    /\ stack' = stack \o <<GoalFrame(sign), JournalFrame, FuncFrame>>
    /\ reads' = EmptyDict
    /\ writes' = EmptyDict
    /\ ncalls' = ncalls - 1
    /\ nruns' = nruns - 1
    /\ ev' = [op |-> "nested_goal", sign |-> sign]
    /\ UNCHANGED <<storage, in_do, journaled, ret, held, nops>>

\* The user's computation calls journal(g) itself.
CallNestedJournal ==
    /\ ret.k = "none" /\ TopK = "func"
    /\ ncalls > 0
    /\ stack' = stack \o <<JournalFrame, FuncFrame>>
    /\ reads' = EmptyDict
    /\ writes' = EmptyDict
    /\ ncalls' = ncalls - 1
    /\ ev' = [op |-> "nested_journal"]
    /\ UNCHANGED <<storage, do, in_goal, in_do, journaled, ret, held, nops, nruns>>

\* The user's computation receives what the goal or journal it called
\* returned.
RunReceive ==
    /\ ret.k \in {"val", "js"} /\ TopK = "func"
    /\ ret' = NoRet
    /\ ev' = [op |-> "nested_received", k |-> ret.k, res |-> ret.res, log |-> ret.log]
    /\ UNCHANGED <<storage, reads, writes, do, in_goal, in_do, journaled, stack, held,
                   nops, ncalls, nruns>>

\* goal after its journal returned, with an optimizer registered.
GoalDispatch ==
    /\ ret.k = "js" /\ TopK = "goal" /\ Top.pc = "journal"
    /\ do # <<>>
    /\ journaled' = <<ret>>
    /\ in_do' = TRUE
    /\ stack' = [stack EXCEPT ![Len(stack)] = [@ EXCEPT !.prev_in_do = in_do, !.pc = "do"]]
                \o <<Invoke(do[1], Top.measure, UserFunc, ret)>>
    /\ ret' = NoRet
    /\ ev' = [op |-> "dispatch"]
    /\ UNCHANGED <<storage, reads, writes, do, in_goal, held, nops, ncalls, nruns>>

\* goal after its journal returned, with no optimizer registered.
GoalCommit ==
    /\ ret.k = "js" /\ TopK = "goal" /\ Top.pc = "journal"
    /\ do = <<>>
    /\ journaled' = <<ret>>
    /\ do' = Top.prev_do
    /\ in_goal' = Top.prev_in_goal
    /\ LET x == commit(ret, storage)
       IN /\ storage' = x.storage
          /\ ret' = IF x.raised THEN Exc ELSE ValRet(ret.res, ret.log)
          /\ stack' = IF x.raised THEN stack ELSE Pop
          /\ ev' = [op |-> "goal_commit", w |-> ret.w, res |-> ret.res, log |-> ret.log,
                    merged |-> x.merged, raised |-> x.raised, entry |-> Top.entry]
    /\ UNCHANGED <<reads, writes, in_do, held, nops, ncalls, nruns>>

\* goal after its optimizer returned.
GoalDone ==
    /\ ret.k = "val" /\ TopK = "goal" /\ Top.pc = "do"
    /\ in_do' = Top.prev_in_do
    /\ do' = Top.prev_do
    /\ in_goal' = Top.prev_in_goal
    /\ stack' = Pop
    /\ ev' = [op |-> "goal_return", res |-> ret.res, log |-> ret.log,
              entry |-> Top.entry, sign |-> Top.measure, strategies |-> ChainLen(do)]
    /\ UNCHANGED <<storage, reads, writes, journaled, ret, held, nops, ncalls, nruns>>

\* repeat: the next of its `tries` iterations calls journal(func).
RepeatIter ==
    /\ ret.k = "none" /\ TopK = "repeat" /\ Top.i < Top.tries
    /\ stack' = [stack EXCEPT ![Len(stack)] = [@ EXCEPT !.i = @ + 1]]
                \o <<JournalFrame, CallFrame(Top.func, journaled[1])>>
    /\ reads' = EmptyDict
    /\ writes' = EmptyDict
    /\ ev' = [op |-> "rerun", name |-> Top.name]
    /\ UNCHANGED <<storage, do, in_goal, in_do, journaled, ret, held, nops, ncalls, nruns>>

\* `if m > bestM`
BetterGreater(m, bestM) == m > bestM

\* `if m <= bestM`
BetterOrEqual(m, bestM) == m <= bestM

\* `if m < bestM`
Better(m, bestM) == m < bestM

\* repeat: journal(func) returned j; keep it if its measure is smaller.
RepeatCompare ==
    /\ ret.k = "js" /\ TopK = "repeat"
    /\ LET m == Measure(Top.measure, ret.res)
           better == Better(m, Top.bestM)
       IN stack' = [stack EXCEPT ![Len(stack)] =
                      [@ EXCEPT !.bestJ = IF better THEN ret ELSE @,
                                !.bestM = IF better THEN m ELSE @,
                                !.best = IF better THEN Len(Top.runs) + 1 ELSE @,
                                !.runs = Append(@, ret.res),
                                !.logs = Append(@, ret.log)]]
    /\ ret' = NoRet
    /\ ev' = [op |-> "compare", name |-> Top.name]
    /\ UNCHANGED <<storage, reads, writes, do, in_goal, in_do, journaled, held, nops, ncalls, nruns>>

\* repeat: after the loop, commit(bestJ) and return its result.
RepeatCommit ==
    /\ ret.k = "none" /\ TopK = "repeat" /\ Top.i = Top.tries
    /\ LET x == commit(Top.bestJ, storage)
       IN /\ storage' = x.storage
          /\ ret' = IF x.raised THEN Exc ELSE ValRet(Top.bestJ.res, Top.bestJ.log)
          /\ stack' = IF x.raised THEN stack ELSE Pop
          /\ ev' = [op |-> "repeat_commit", name |-> Top.name, tries |-> Top.tries,
                    sign |-> Top.measure, runs |-> Top.runs, logs |-> Top.logs,
                    best |-> Top.best,
                    res |-> Top.bestJ.res, w |-> Top.bestJ.w, log |-> Top.bestJ.log,
                    depth |-> Len(stack), merged |-> x.merged, raised |-> x.raised]
    /\ UNCHANGED <<reads, writes, do, in_goal, in_do, journaled, held, nops, ncalls, nruns>>

\* The read/write primitives with journal and commit called from the
\* module's top level.
Next ==
    \/ \E a \in Addresses, u \in Draws : Read(a[1], a[2], u)
    \/ \E a \in Addresses, new \in PlainVals : Write(a[1], a[2], new)
    \/ CallJournal
    \/ \E r \in Results : Return(r)
    \/ Fail
    \/ JournalReturn
    \/ Unwind
    \/ TopReceive
    \/ Commit

Spec == Init /\ [][Next]_vars

\* Calls of a checked function on arguments with and without overrides.
InitChecked ==
    /\ InitModule
    /\ storage = [c \in Containers |-> <<>>]
    /\ nops = MaxOps /\ ncalls = 0 /\ nruns = 0

NextChecked ==
    \E args \in ArgLists, kwargs \in KwargLists :
        CallChecked(args, kwargs)

SpecChecked == InitChecked /\ [][NextChecked]_vars

\* read and write on capability values: the keys of one container, which
\* may hold and be given a Bounded value, and the whole values WholeVal
\* and CapObj, inside and outside journal calls.
AddressesCap == ({FirstContainer} \X Keys) \cup {<<WholeVal, NoKey>>, <<CapObj, NoKey>>}

NextCap ==
    \/ \E a \in AddressesCap, u \in Draws : Read(a[1], a[2], u)
    \/ \E a \in AddressesCap, new \in PlainVals : Write(a[1], a[2], new)
    \/ \E k \in Keys, new \in CapVals : Write(FirstContainer, k, new)
    \/ CallJournal
    \/ \E r \in Results : Return(r)
    \/ JournalReturn
    \/ TopReceive
    \/ Commit

SpecCap == InitCap /\ [][NextCap]_vars

\* journal called from the module's top level with a computation that
\* reads, writes and may call journal again.
NextJournals ==
    \/ \E a \in AddressesCap, u \in Draws : Read(a[1], a[2], u)
    \/ \E a \in AddressesCap, new \in PlainVals : Write(a[1], a[2], new)
    \/ CallJournal
    \/ CallNestedJournal
    \/ RunReceive
    \/ \E r \in Results : Return(r)
    \/ JournalReturn
    \/ TopReceive

SpecJournals == Init /\ [][NextJournals]_vars

\* goal called from the module's top level, with a computation that writes
\* keys of the containers and registers minimize / maximize strategies.
NextGoal ==
    \/ \E k \in Keys, new \in PlainVals : Write(FirstContainer, k, new)
    \/ \E n \in 0..MaxTries : OnGoal(n)
    \/ \E sign \in {1, -1} : CallGoal(sign)
    \/ \E r \in Results : Return(r)
    \/ Fail
    \/ JournalReturn
    \/ Unwind
    \/ TopReceive
    \/ GoalDispatch
    \/ GoalCommit
    \/ GoalDone
    \/ RepeatIter
    \/ RepeatCompare
    \/ RepeatCommit

SpecGoal == InitGoal /\ [][NextGoal]_vars

\* goal called from the module's top level, with a computation that only
\* registers minimize / maximize strategies and returns or raises: the
\* selection among the runs, without the writes of the runs.
NextMinimize ==
    \/ \E n \in 0..MaxTries : OnGoal(n)
    \/ \E sign \in {1, -1} : CallGoal(sign)
    \/ \E r \in Results : Return(r)
    \/ Fail
    \/ JournalReturn
    \/ Unwind
    \/ TopReceive
    \/ GoalDispatch
    \/ GoalCommit
    \/ GoalDone
    \/ RepeatIter
    \/ RepeatCompare
    \/ RepeatCommit

SpecMinimize == InitMinimize /\ [][NextMinimize]_vars

\* goal called from the module's top level over empty containers, with a
\* computation that writes, registers strategies and returns: the commits
\* of goal(M, f) and of its strategies when no run fails.
InitCommit ==
    /\ InitModule
    /\ storage = [c \in Containers |-> <<>>]
    /\ nops = MaxGoalOps /\ ncalls = MaxGoals /\ nruns = MaxRuns

NextCommit ==
    \/ \E k \in Keys, new \in PlainVals : WriteInRun(FirstContainer, k, new)
    \/ \E n \in 0..MaxTries : OnGoal(n)
    \/ CallGoal(1)
    \/ \E r \in Results : Return(r)
    \/ JournalReturn
    \/ TopReceive
    \/ GoalDispatch
    \/ GoalCommit
    \/ GoalDone
    \/ RepeatIter
    \/ RepeatCompare
    \/ RepeatCommit

SpecCommit == InitCommit /\ [][NextCommit]_vars

\* goal with a computation that may call goal again, in its baseline run
\* or in a re-run, besides registering strategies and returning.
InitNested ==
    /\ InitModule
    /\ storage = [c \in Containers |-> <<>>]
    /\ nops = 0 /\ ncalls = MaxGoals + MaxNested /\ nruns = MaxRuns

NextNested ==
    \/ \E n \in 0..MaxTries : OnGoal(n)
    \/ \E sign \in {1, -1} : CallGoal(sign)
    \/ \E sign \in {1, -1} : CallNestedGoal(sign)
    \/ RunReceive
    \/ \E r \in Results : Return(r)
    \/ JournalReturn
    \/ TopReceive
    \/ GoalDispatch
    \/ GoalCommit
    \/ GoalDone
    \/ RepeatIter
    \/ RepeatCompare
    \/ RepeatCommit

SpecNested == InitNested /\ [][NextNested]_vars

\* --------------------------------------------------------------- claims
\* The positions of the writes to (dict, key) in a log of writes.
WritesTo(log, dict, key) ==
    {i \in 1..Len(log) : log[i].dict = dict /\ log[i].key = key}
\* The last value a log of writes gives to (dict, key).
LastWritten(log, dict, key) ==
    log[CHOOSE i \in WritesTo(log, dict, key) :
            \A j \in WritesTo(log, dict, key) : j <= i].new
\* The containers some key of which a log of writes writes.
Touched(log) == {c \in Containers : \E k \in Keys : WritesTo(log, c, k) # {}}
Count(seq, x) == Cardinality({i \in 1..Len(seq) : seq[i] = x})
\* The direct, untransacted read(dict, key) on the current storage.
DirectRead(dict, key) == read(dict, key, storage, NoneDict, NoneDict, BoundedA).res

\* C1: a write made while a transaction context is active (in particular
\* inside a journal call) leaves the storage as it is, and the storage
\* changes only by a commit or by a write made with no context active.
C1_BufferingIsolation ==
    [][/\ (ev'.op = "write" /\ (ev'.transacted \/ ev'.in_journal)) => storage' = storage
       /\ storage' # storage =>
            \/ ev'.op = "commit"
            \/ ev'.op = "write" /\ ~ev'.transacted]_vars

\* A keyed write was buffered inside a journal call, with a value the
\* storage does not hold at that key.
C1_Witness ==
    /\ ev.op = "write" /\ ev.transacted /\ ev.in_journal /\ ev.key # NoKey
    /\ ev.key \in DOMAIN storage[ev.dict]
    /\ storage[ev.dict][ev.key] # ev.new

C4_RestoredOnEveryExit ==
    AtTopLevel =>
        /\ ~reads.on /\ ~writes.on
        /\ do = <<>> /\ ~in_goal /\ ~in_do

\* C9 as stated: after write(c, k, v) to an address whose stored value has
\* no override (a key of a container, or a whole value with key=None), a
\* read of the same address yields v, with or without an active context.
C9_RoundTripAsStated ==
    (ev.op = "write" /\ ~ev.overridden) =>
        \A u \in Draws : read(ev.dict, ev.key, storage, reads, writes, u).res = ev.new

\* C9 amended: the round trip holds for a key of a container, with or
\* without an active context, and for a whole value (key=None) only when
\* a context is active.
C9_RoundTrip ==
    (ev.op = "write" /\ ~ev.overridden /\ (ev.key # NoKey \/ ev.transacted)) =>
        \A u \in Draws : read(ev.dict, ev.key, storage, reads, writes, u).res = ev.new

\* A buffered keyed write of a value the storage does not hold there.
C9_Witness ==
    /\ ev.op = "write" /\ ~ev.overridden /\ ev.transacted /\ ev.key # NoKey
    /\ DirectRead(ev.dict, ev.key) # ev.new

\* The storage with the keyed writes of a log applied in order.
RECURSIVE ApplyLog(_, _)
ApplyLog(st, log) ==
    IF log = <<>> THEN st
    ELSE ApplyLog(IF Head(log).key = NoKey THEN st
                  ELSE [st EXCEPT ![Head(log).dict] = (Head(log).key :> Head(log).new) @@ @],
                  Tail(log))

\* C3: while a failure of the computation propagates, the storage is what
\* it was when each journal call it passes through started.
C3_NoCommitOnFailure ==
    ret.k = "exc" =>
        \A j \in 1..Len(stack) : stack[j].k = "journal" => storage = stack[j].entry

\* C5: the result minimize commits and returns has a measure no greater
\* than that of the baseline and of each of its `tries` re-runs.
C5_MinimizeMonotone ==
    ev.op = "repeat_commit" =>
        /\ Len(ev.runs) = ev.tries + 1
        /\ \A i \in 1..Len(ev.runs) :
              Measure(ev.sign, ev.res) <= Measure(ev.sign, ev.runs[i])

\* minimize returned after two re-runs, one of which improved on the
\* baseline and one of which did not.
C5_Witness ==
    /\ ev.op = "repeat_commit" /\ ev.sign = 1 /\ ev.tries = 2
    /\ Measure(1, ev.res) < Measure(1, ev.runs[1])
    /\ \E i \in 2..3 : Measure(1, ev.res) < Measure(1, ev.runs[i])

\* C6: during a goal call with one or two registered strategies the
\* storage changes only by the commit of the outermost strategy, and when
\* goal returns the storage is the storage on entry with the writes of
\* the run whose result is returned, and no other write.
C6_OnlyBestCommitted ==
    [][/\ (/\ stack # <<>> /\ stack[1].k = "goal" /\ ChainLen(do) \in {1, 2}
           /\ storage' # storage)
          => (ev'.op = "repeat_commit" /\ ev'.depth = 2)
       /\ (ev'.op = "goal_return" /\ ev'.strategies \in {1, 2})
          => storage' = ApplyLog(ev'.entry, ev'.log)]_vars

\* C7: on dispatch the first-registered strategy runs first; the
\* computation a strategy re-runs is the next-registered strategy, and the
\* last-registered strategy re-runs the user's computation.
C7_PriorityComposition ==
    \A p \in 1..Len(stack) :
        /\ (stack[p].k = "goal" /\ stack[p].pc = "do" /\ p < Len(stack))
           => (stack[p + 1].k = "repeat" /\ stack[p + 1].name = 1)
        /\ (stack[p].k = "repeat" /\ p + 2 <= Len(stack))
           => /\ stack[p + 1].k = "journal"
              /\ IF stack[p].name < ChainLen(do)
                 THEN stack[p + 2].k = "repeat" /\ stack[p + 2].name = stack[p].name + 1
                 ELSE stack[p + 2].k = "func"

\* Three strategies were registered and the user's computation is re-run
\* by the third, which the second re-runs, which the first re-runs.
C7_Witness ==
    /\ Len(stack) = 8
    /\ ChainLen(do) = 3
    /\ stack[2].k = "repeat" /\ stack[4].k = "repeat" /\ stack[6].k = "repeat"
    /\ stack[8].k = "func"

\* C8: on_goal leaves the registered optimizer as it is when no goal call
\* is in progress or an optimizer is executing.
C8_RegistrationGuard ==
    [][(ev'.op = "on_goal" /\ (~ev'.open \/ ev'.in_optimizer)) => do' = do]_vars

\* The run maximize (or minimize, under its measure) selects: the earliest
\* run whose measure is minimal.
WinnerOf(sign, runs) ==
    CHOOSE i \in 1..Len(runs) :
        /\ \A j \in 1..Len(runs) : Measure(sign, runs[i]) <= Measure(sign, runs[j])
        /\ \A j \in 1..(i - 1) : Measure(sign, runs[i]) < Measure(sign, runs[j])

\* C10: under maximize's negated measure, the run committed and returned
\* is the run minimize selects for the negated measure, and its measure M
\* is no smaller than that of the baseline and of every re-run.
C10_MaximizeDuality ==
    (ev.op = "repeat_commit" /\ ev.sign = -1) =>
        /\ ev.best = WinnerOf(-1, ev.runs)
        /\ ev.res = ev.runs[ev.best]
        /\ \A i \in 1..Len(ev.runs) : M(ev.res) >= M(ev.runs[i])

\* maximize returned a re-run whose measure M is greater than the
\* baseline's.
C10_Witness ==
    /\ ev.op = "repeat_commit" /\ ev.sign = -1 /\ ev.tries > 0
    /\ M(ev.res) > M(ev.runs[1])

\* C11: write returns the value it stored: the value now held at the keyed
\* address when no context is active, and the value put in the
\* write-buffer when one is.
C11_WriteReturnsStored ==
    ev.op = "write" =>
        IF ev.transacted
        THEN ev.res = ev.new
        ELSE IF ev.key # NoKey
             THEN ev.res = storage[ev.dict][ev.key]
             ELSE ev.res = ev.new

\* The keyed address (dict, key) has no entry in the storage, the
\* read-memo or the write-buffer.
Absent(dict, key) ==
    /\ key # NoKey
    /\ key \notin DOMAIN storage[dict]
    /\ ~reads.on \/ Get2(reads, dict, key) = KeyError
    /\ ~writes.on \/ Get2(writes, dict, key) = KeyError

\* C12: a read of an absent keyed address returns None, raises nothing and
\* changes neither the storage nor the context; a write of v to a key
\* missing from its container, made with no context active, inserts v
\* there and returns v.
C12_MissingEntries ==
    [][/\ (ev'.op = "read" /\ Absent(ev'.dict, ev'.key))
          => /\ ev'.res = None
             /\ ret' = ret
             /\ <<storage, reads, writes>>' = <<storage, reads, writes>>
       /\ (/\ ev'.op = "write" /\ ~ev'.transacted /\ ev'.key # NoKey
           /\ ev'.key \notin DOMAIN storage[ev'.dict])
          => /\ ev'.key \in DOMAIN storage'[ev'.dict]
             /\ storage'[ev'.dict][ev'.key] = ev'.new
             /\ ev'.res = ev'.new]_vars

\* A key with no entry anywhere was read inside a journal call, and the
\* read returned None.
C12_Witness ==
    /\ ev.op = "read" /\ ev.transacted /\ ev.res = None
    /\ Absent(ev.dict, ev.key)

\* The read-memo entry for (dict, key), or KeyError.
Memo(rd, dict, key) ==
    IF ~rd.on THEN KeyError
    ELSE IF key = NoKey THEN _dictGet(rd, dict) ELSE Get2(rd, dict, key)

StoredValue(dict, key) ==
    IF key = NoKey THEN WholeValue(dict)
    ELSE IF key \in DOMAIN storage[dict] THEN storage[dict][key] ELSE None

\* C14: when a read inside a transaction context finds no entry in the
\* write-buffer or the read-memo and the stored value has a read override,
\* the read-memo afterwards holds the value returned, for a key of a
\* container and for a whole value (key=None) alike.
C14_OverrideReadsCached ==
    [][(/\ ev'.op = "read" /\ ev'.transacted
        /\ Memo(writes, ev'.dict, ev'.key) = KeyError
        /\ Memo(reads, ev'.dict, ev'.key) = KeyError
        /\ StoredValue(ev'.dict, ev'.key).t = "Bounded")
       => Memo(reads', ev'.dict, ev'.key) = ev'.res]_vars

\* C15: when the baseline run registered no strategy, goal returns the
\* baseline's result with the baseline's writes, and no other, applied to
\* the storage, each written container merged once; when a strategy was
\* registered, the storage is still what it was on entry when goal hands
\* over to the strategy, and goal returns what the strategy returned.
C15_AutoCommit ==
    /\ ev.op = "goal_commit" =>
          /\ storage = ApplyLog(ev.entry, ev.log)
          /\ \A c \in Containers :
                Count(ev.merged, c) = IF c \in Touched(ev.log) THEN 1 ELSE 0
          /\ ret = ValRet(ev.res, ev.log)
    /\ ev.op = "dispatch" =>
          /\ do # <<>> /\ stack[1].pc = "do"
          /\ storage = stack[1].entry
    /\ ev.op = "goal_return" =>
          /\ ev.strategies >= 1
          /\ ret.k = "val" /\ ret.res = ev.res

\* goal committed and returned a baseline that wrote a value, having no
\* strategy registered.
C15_Witness ==
    /\ ev.op = "goal_commit" /\ ev.log # <<>>
    /\ storage # ev.entry

\* C16: when a goal call made by a computation returns, goal.do is what
\* it was when the call was made, and so is goal.journaled if the call was
\* made in a re-run, where it holds the enclosing goal's baseline.
C16_NestedGoalRestores ==
    [][(/\ ev'.op \in {"goal_return", "goal_commit"}
        /\ Len(stack) > 1 /\ ret'.k = "val")
       => /\ do' = Top.prev_do
          /\ Top.prev_in_do => journaled' = Top.prev_journaled]_vars

\* The entries for the address (dict, key) in a list of cached reads.
CachedAt(cached, dict, key) ==
    {i \in 1..Len(cached) : cached[i].dict = dict /\ cached[i].key = key}

\* C17: while a computation runs inside a journal call, whether or not it
\* is nested in another one and whether or not a journal call it made has
\* returned, the write-buffer holds the writes of this run of the
\* computation and no other, and the read-memo holds the reads this run
\* cached and no other; a read of an address this run has not written,
\* whose stored value has no read override, returns the stored value.
C17_NestedJournalIsolation ==
    (InUser /\ TopK = "func") =>
        /\ reads.on /\ writes.on
        /\ (/\ ev.op = "read" /\ WritesTo(Top.log, ev.dict, ev.key) = {}
            /\ StoredValue(ev.dict, ev.key).t # "Bounded")
           => ev.res = StoredValue(ev.dict, ev.key)
        /\ \A a \in AddressesCap :
              /\ Memo(writes, a[1], a[2]) =
                    IF WritesTo(Top.log, a[1], a[2]) # {}
                    THEN LastWritten(Top.log, a[1], a[2]) ELSE KeyError
              /\ Memo(reads, a[1], a[2]) =
                    IF CachedAt(Top.cached, a[1], a[2]) # {}
                    THEN Top.cached[CHOOSE i \in CachedAt(Top.cached, a[1], a[2]) : TRUE].res
                    ELSE KeyError

\* A journal call made inside another one has returned with a write of
\* its own, and the enclosing computation, which wrote another value to
\* the same address before the call, runs on.
C17_Witness ==
    /\ ev.op = "nested_received" /\ ev.k = "js"
    /\ ev.log # <<>> /\ Top.log # <<>>
    /\ ev.log[1].dict = Top.log[1].dict /\ ev.log[1].key = Top.log[1].key
    /\ ev.log[1].new # Top.log[1].new

\* C18: a strategy with tries = n returns after the baseline and exactly n
\* further runs, and what it commits and returns is the result and the
\* writes of the earliest of these runs whose measure is the minimum.
C18_SelectionAndTies ==
    ev.op = "repeat_commit" =>
        /\ Len(ev.runs) = ev.tries + 1
        /\ ev.best = WinnerOf(ev.sign, ev.runs)
        /\ ev.res = ev.runs[ev.best]
        /\ ev.log = ev.logs[ev.best]

\* The strategy committed the baseline although a later run, with other
\* writes, had the same measure.
C18_Witness ==
    /\ ev.op = "repeat_commit" /\ ev.best = 1 /\ ev.tries >= 1
    /\ \E j \in 2..Len(ev.runs) :
          /\ Measure(ev.sign, ev.runs[j]) = Measure(ev.sign, ev.runs[1])
          /\ ev.logs[j] # ev.logs[1]

\* The positions, in a sequence of arguments, of those whose override for
\* the operation returns a result.
Overriding(all) == {i \in 1..Len(all) : all[i].c = "overrides"}

\* C19: a call of a checked function returns the result of the first
\* argument, positional arguments first, whose override returns one, and
\* calls no override of a later argument; when no argument has such an
\* override, the default body runs and the call returns its result.
C19_OverrideResolution ==
    ev.op = "checked" =>
        LET all == ev.args \o ev.kwargs
            first == CHOOSE i \in Overriding(all) : \A j \in Overriding(all) : i <= j
        IN IF Overriding(all) # {}
           THEN /\ ev.out.k = "val" /\ ev.out.res = Num(all[first].r)
                /\ ~ev.out.body
                /\ \A p \in 1..Len(ev.out.invoked) : ev.out.invoked[p] <= first
           ELSE /\ ev.out.k = "val" /\ ev.out.res = DefaultResult
                /\ ev.out.body

\* The storage after the writes of a log made one after the other with no
\* context active.
RECURSIVE DirectRun(_, _)
DirectRun(st, log) ==
    IF log = <<>> THEN st
    ELSE DirectRun(writeDirect(Head(log).dict, Head(log).key, Head(log).new,
                               st, NoneDict).storage,
                   Tail(log))

\* C20: the commit of the effect set of a journaled run leaves the storage
\* as the same writes made with no context active would leave it; a
\* Bounded value stored at a key the run wrote is still stored there.
C20_TransactedEqualsDirect ==
    [][(ev'.op = "commit" /\ ~ev'.raised) =>
         /\ storage' = DirectRun(storage, ev'.log)
         /\ \A c \in Containers, k \in Keys :
               (k \in DOMAIN storage[c] /\ storage[c][k].t = "Bounded")
                  => storage'[c][k].t = "Bounded"]_vars

====
